---- MODULE Spec2Model ----
(***************************************************************************)
(* Model of the three operator-run scripts of the repository:              *)
(*   download_phi35_model.py    (the Fetcher),                             *)
(*   extract_ollama_model.py    (the Local Extractor),                     *)
(*   verify_phi35_integration.py (the Verifier).                           *)
(* The state is the filesystem the scripts share (the target directory     *)
(* app/src/main/assets/models), the things they read (the remote endpoint, *)
(* the local model store, the companion source files) and the observable   *)
(* outcome of the last run (report, return value, exit status).            *)
(***************************************************************************)
EXTENDS Integers, Sequences, FiniteSets, TLC

VARIABLES
    fs,        \* the target directory: [dir, files, extra]
    sources,   \* the companion source files the Verifier reads
    endpoint,  \* what the remote host answers for each of the three URLs
    store,     \* the candidate store roots of the local model-management tool
    copyIO,    \* how shutil.copy2 behaves on this machine: "ok", "failOpen", "failMid"
    proc,      \* the script that ran last: "none", "fetch", "extract", "verify"
    pre,       \* fs as it was when the last script started
    out,       \* what the last script reported / returned / exited with
    runs       \* number of scripts run so far

vars == <<fs, sources, endpoint, store, copyIO, proc, pre, out, runs>>

----------------------------------------------------------------------------
(* Bounds of the model *)

MaxRuns == 2
MaxLayers == 2

----------------------------------------------------------------------------
(* The target directory *)

ONNX == "phi-3.5-mini-instruct.onnx"
TOKENIZER == "phi-3.5-mini-tokenizer.json"
CONFIG == "phi-3.5-mini-config.json"

\* model_files, in dictionary (insertion) order
model_files == <<ONNX, TOKENIZER, CONFIG>>

Assets == {ONNX, TOKENIZER, CONFIG}

\* a path that does not exist
Absent == [present |-> FALSE, size |-> 0, data |-> "none"]

\* a regular file of `size` bytes holding (a prefix of) the content `data`
File(size, data) == [present |-> TRUE, size |-> size, data |-> data]

NoDir == [dir |-> FALSE, files |-> [f \in Assets |-> Absent], extra |-> 0]

\* assets_dir.mkdir(parents=True, exist_ok=True)
Mkdir(d) == [d EXCEPT !.dir = TRUE]

\* file_path.exists()
Exists(d, f) == d.dir /\ d.files[f].present

\* file_path.stat().st_size
StSize(d, f) == d.files[f].size

\* 'onnx' in filename
HasOnnx(f) == f = ONNX

----------------------------------------------------------------------------
(* verify_phi35_integration.py *)

FullThreshold == 2000000000
PartialThreshold == 100000000
AggregateFloor == 100000000

\* the size classification of the model-weights file
ClassifyOnnx(size) ==
    IF size > FullThreshold THEN "FullModel"
    ELSE IF size > PartialThreshold THEN "PartialOrPlaceholder"
    ELSE "TooSmall"

\* FileStatus with the existence test lost for the companion files
FileStatusNoExistenceTest(d, f) ==
    IF HasOnnx(f)
    THEN IF Exists(d, f) THEN ClassifyOnnx(StSize(d, f)) ELSE "Missing"
    ELSE "Present"

\* the status printed for one asset in the loop over model_files
FileStatus(d, f) ==
    IF Exists(d, f)
    THEN IF HasOnnx(f) THEN ClassifyOnnx(StSize(d, f)) ELSE "Present"
    ELSE "Missing"

RECURSIVE SumSizes(_, _, _)
\* total_size after the first n entries of model_files
SumSizes(d, names, n) ==
    IF n = 0 THEN 0
    ELSE SumSizes(d, names, n - 1)
         + (IF Exists(d, names[n]) THEN StSize(d, names[n]) ELSE 0)

\* all_files_present after the loop
AllFilesPresent(d) == \A i \in 1..Len(model_files) : Exists(d, model_files[i])

\* AggregateResult with the floor made inclusive
AggregateResultInclusive(allPresent, total) ==
    allPresent /\ total >= AggregateFloor

\* the return expression of check_model_integration
AggregateResult(allPresent, total) == allPresent /\ total > AggregateFloor

\* a companion source file read with read_text(): "absent", "unreadable"
\* (exists() is true and read_text() raises: a directory, undecodable bytes),
\* "plain" (readable, markers absent) or "marked" (readable, markers present)
SourceStates == {"absent", "unreadable", "plain", "marked"}

\* executor_file.exists() followed by read_text(), then build_file likewise
ReadRaises(src) == src.executor = "unreadable" \/ src.build = "unreadable"

NotChecked == [f \in Assets |-> "NotChecked"]

\* check_model_integration(): the per-file report, the total, and either the
\* returned value or the exception leaving the function
check_model_integration(d, src) ==
    IF ~d.dir
    THEN [status |-> NotChecked, total |-> 0, raised |-> FALSE, ret |-> FALSE]
    ELSE LET status == [f \in Assets |-> FileStatus(d, f)]
             total == SumSizes(d, model_files, Len(model_files))
         IN  IF ReadRaises(src)
             THEN [status |-> status, total |-> total, raised |-> TRUE,
                   ret |-> FALSE]
             ELSE [status |-> status, total |-> total, raised |-> FALSE,
                   ret |-> AggregateResult(AllFilesPresent(d), total)]

\* the __main__ block of the Verifier: sys.exit(1) only in the except branch
VerifierExit(r) == IF r.raised THEN 1 ELSE 0

VerifierRun ==
    /\ runs < MaxRuns
    /\ LET r == check_model_integration(fs, sources)
       IN  out' = [status |-> r.status, total |-> r.total, raised |-> r.raised,
                   ret |-> r.ret, exit |-> VerifierExit(r)]
    /\ proc' = "verify"
    /\ pre' = fs
    /\ runs' = runs + 1
    /\ UNCHANGED <<fs, sources, endpoint, store, copyIO>>

----------------------------------------------------------------------------
(* download_phi35_model.py *)

CompleteThreshold == 2000000000

RECURSIVE SumChunks(_, _)
\* downloaded after the first n chunks of iter_content (an empty chunk is
\* skipped by `if chunk:` and adds nothing)
SumChunks(chunks, n) ==
    IF n = 0 THEN 0
    ELSE SumChunks(chunks, n - 1) + (IF chunks[n] > 0 THEN chunks[n] ELSE 0)

\* f.write(chunk) of n bytes coming from `origin`
WriteBytes(file, n, origin) ==
    IF n = 0 THEN file
    ELSE File(file.size + n,
              IF file.size = 0 \/ file.data = origin THEN origin ELSE "mixed")

\* OpenWB as open(target_path, 'ab'): an existing file keeps its bytes
OpenAppend(d, f) ==
    IF d.files[f].present THEN d ELSE [d EXCEPT !.files[f] = File(0, "none")]

\* open(target_path, 'wb'): the file is created, or truncated when it exists
OpenWB(d, f) == [d EXCEPT !.files[f] = File(0, "none")]

\* the body of the try block for one file. resp.fail says where the transfer
\* fails: "request" (requests.get, raise_for_status or the content-length
\* header, all before the file is opened), "stream" (iter_content raises after
\* delivering resp.chunks) or "none".
TryDownload(d, f, resp) ==
    IF resp.fail = "request"
    THEN [fs |-> d, error |-> TRUE, downloaded |-> 0]
    ELSE LET opened == OpenWB(d, f)
             n == SumChunks(resp.chunks, Len(resp.chunks))
             written == [opened EXCEPT
                           !.files[f] = WriteBytes(opened.files[f], n, "remote")]
         IN  [fs |-> written, error |-> resp.fail = "stream", downloaded |-> n]

\* DownloadFile without the except clause: a failure leaves the loop
DownloadFileUncaught(d, f, resp) ==
    LET t == TryDownload(d, f, resp)
    IN  [fs |-> t.fs, name |-> f, ok |-> ~t.error, downloaded |-> t.downloaded,
         escaped |-> t.error]

\* one iteration of the loop over model_files: the try block and its
\* `except Exception`, which prints and lets the loop go on
DownloadFile(d, f, resp) ==
    LET t == TryDownload(d, f, resp)
    IN  [fs |-> t.fs, name |-> f, ok |-> ~t.error, downloaded |-> t.downloaded,
         escaped |-> FALSE]

RECURSIVE DownloadLoop(_, _, _)
\* the state after the first n iterations: the directory and the log of
\* attempts; an exception that escapes an iteration ends the loop
DownloadLoop(d, ep, n) ==
    IF n = 0 THEN [fs |-> d, log |-> <<>>, raised |-> FALSE]
    ELSE LET before == DownloadLoop(d, ep, n - 1)
         IN  IF before.raised THEN before
             ELSE LET r == DownloadFile(before.fs, model_files[n],
                                        ep[model_files[n]])
                  IN  [fs |-> r.fs,
                       log |-> Append(before.log,
                                      [name |-> r.name, ok |-> r.ok,
                                       downloaded |-> r.downloaded]),
                       raised |-> r.escaped]

\* the post-run scan: each file's final size, or -1 for "Missing"
ScanReport(d) == [f \in Assets |-> IF Exists(d, f) THEN StSize(d, f) ELSE -1]

\* sum(f.stat().st_size for f in assets_dir.glob('*') if f.is_file())
GlobTotal(d) == SumSizes(d, model_files, Len(model_files)) + d.extra

\* LooksComplete with the threshold made inclusive
LooksCompleteInclusive(total) == total >= CompleteThreshold

\* the "appear to be complete" decision
LooksComplete(total) == total > CompleteThreshold

\* download_phi35_mini()
download_phi35_mini(d, ep) ==
    LET made == Mkdir(d)
        loop == DownloadLoop(made, ep, Len(model_files))
    IN  IF loop.raised
        THEN [fs |-> loop.fs, log |-> loop.log, raised |-> TRUE,
              scan |-> [f \in Assets |-> -1], total |-> 0, complete |-> FALSE]
        ELSE [fs |-> loop.fs, log |-> loop.log, raised |-> FALSE,
              scan |-> ScanReport(loop.fs), total |-> GlobTotal(loop.fs),
              complete |-> LooksComplete(GlobTotal(loop.fs))]

\* the __main__ block of the Fetcher: it returns normally after the call, and
\* its except branches only print; no branch calls sys.exit
FetcherExit(r) == IF r.raised THEN 0 ELSE 0

FetcherRun ==
    /\ runs < MaxRuns
    /\ LET r == download_phi35_mini(fs, endpoint)
       IN  /\ fs' = r.fs
           /\ out' = [log |-> r.log, raised |-> r.raised, scan |-> r.scan,
                      total |-> r.total, complete |-> r.complete,
                      exit |-> FetcherExit(r)]
    /\ proc' = "fetch"
    /\ pre' = fs
    /\ runs' = runs + 1
    /\ UNCHANGED <<sources, endpoint, store, copyIO>>

----------------------------------------------------------------------------
(* extract_ollama_model.py *)

\* Strings the code splits or searches are sequences of their parts: a media
\* type is its dot-separated parts, a digest its colon-separated parts.
MARKER == <<"application/vnd", "ollama", "image", "model">>
MediaModel == MARKER
MediaModelExt == <<"application/vnd", "ollama", "image", "model", "v2">>
MediaLicense == <<"application/vnd", "ollama", "image", "license">>

\* `sub in s`
Contains(s, sub) ==
    \E i \in 0..(Len(s) - Len(sub)) : SubSeq(s, i + 1, i + Len(sub)) = sub

Hexes == {"aaa", "bbb"}

\* size in bytes of the blob file sha256-<hex>
BlobSize(hex) == IF hex = "aaa" THEN 2000000001 ELSE 5

\* possible_paths, in order: ~/.ollama/models, /usr/share/ollama/models,
\* /var/lib/ollama/models, /opt/ollama/models
NumCandidates == 4
possible_paths == 1..NumCandidates

NotFound == [found |-> FALSE, hex |-> "none"]
Found(hex) == [found |-> TRUE, hex |-> hex]

\* find_ollama_models keeping the last candidate that exists
find_ollama_models_last(st) ==
    IF \E i \in possible_paths : st[i].exists
    THEN CHOOSE i \in possible_paths :
             st[i].exists /\ \A j \in (i + 1)..NumCandidates : ~st[j].exists
    ELSE 0

\* find_ollama_models(): the first candidate that exists; 0 stands for None
find_ollama_models(st) ==
    IF \E i \in possible_paths : st[i].exists
    THEN CHOOSE i \in possible_paths :
             st[i].exists /\ \A j \in 1..(i - 1) : ~st[j].exists
    ELSE 0

RECURSIVE ScanLayersStopAtFirst(_, _, _)
\* ScanLayers giving up at the first matching layer when its blob is missing
ScanLayersStopAtFirst(layers, i, blobs) ==
    IF i > Len(layers) THEN NotFound
    ELSE IF Contains(layers[i].media, MARKER)
         THEN IF Len(layers[i].digest) < 2 THEN NotFound
              ELSE IF layers[i].digest[2] \in blobs
                   THEN Found(layers[i].digest[2])
                   ELSE NotFound
         ELSE ScanLayersStopAtFirst(layers, i + 1, blobs)

RECURSIVE ScanLayers(_, _, _)
\* the loop over manifest_content["layers"] from layer i on, inside the try
\* block: a matching layer whose digest has no second part raises IndexError
\* (caught: the function falls through to `return None`); a matching layer
\* whose blob file is missing is passed over
ScanLayers(layers, i, blobs) ==
    IF i > Len(layers) THEN NotFound
    ELSE IF Contains(layers[i].media, MARKER)
         THEN IF Len(layers[i].digest) < 2 THEN NotFound
              ELSE IF layers[i].digest[2] \in blobs
                   THEN Found(layers[i].digest[2])
                   ELSE ScanLayers(layers, i + 1, blobs)
         ELSE ScanLayers(layers, i + 1, blobs)

\* find_phi35_model(models_dir)
find_phi35_model(root) ==
    IF ~root.blobsDir THEN NotFound
    ELSE IF root.manifest.kind # "json" THEN NotFound
    ELSE ScanLayers(root.manifest.layers, 1, root.blobs)

\* shutil.copy2(model_blob_path, target_file) under the machine's I/O
\* behaviour: the destination is opened for writing (truncated) and filled
CopyBlob(d, hex, io) ==
    IF io = "failOpen" THEN d
    ELSE IF io = "failMid" THEN [d EXCEPT !.files[ONNX] = File(0, "none")]
    ELSE [d EXCEPT !.files[ONNX] = File(BlobSize(hex), hex)]

\* extract_model_to_assets(model_blob_path, assets_dir)
extract_model_to_assets(blob, d, io) ==
    IF ~blob.found THEN [fs |-> d, ret |-> FALSE]
    ELSE LET made == Mkdir(d)
             copied == CopyBlob(made, blob.hex, io)
         IN  IF io # "ok" THEN [fs |-> copied, ret |-> FALSE]
             ELSE [fs |-> copied, ret |-> Exists(copied, ONNX)]

\* main preparing the assets directory before the lookups
main_mkdir_first(st, d, io) ==
    LET root == find_ollama_models(st)
        made == Mkdir(d)
    IN  IF root = 0
        THEN [fs |-> made, root |-> 0, blob |-> NotFound, ret |-> FALSE]
        ELSE LET blob == find_phi35_model(st[root])
             IN  IF ~blob.found
                 THEN [fs |-> made, root |-> root, blob |-> blob, ret |-> FALSE]
                 ELSE LET e == extract_model_to_assets(blob, made, io)
                      IN  [fs |-> e.fs, root |-> root, blob |-> blob,
                           ret |-> e.ret]

\* main()
main(st, d, io) ==
    LET root == find_ollama_models(st)
    IN  IF root = 0
        THEN [fs |-> d, root |-> 0, blob |-> NotFound, ret |-> FALSE]
        ELSE LET blob == find_phi35_model(st[root])
             IN  IF ~blob.found
                 THEN [fs |-> d, root |-> root, blob |-> blob, ret |-> FALSE]
                 ELSE LET e == extract_model_to_assets(blob, d, io)
                      IN  [fs |-> e.fs, root |-> root, blob |-> blob,
                           ret |-> e.ret]

\* the __main__ block of the Extractor
ExtractorExit(r) == IF r.ret THEN 0 ELSE 1

ExtractorRun ==
    /\ runs < MaxRuns
    /\ LET r == main(store, fs, copyIO)
       IN  /\ fs' = r.fs
           /\ out' = [root |-> r.root, blob |-> r.blob, ret |-> r.ret,
                      exit |-> ExtractorExit(r)]
    /\ proc' = "extract"
    /\ pre' = fs
    /\ runs' = runs + 1
    /\ UNCHANGED <<sources, endpoint, store, copyIO>>

----------------------------------------------------------------------------
(* The environments the scripts are run in *)

SeqsUpTo(S, n) == UNION {[1..k -> S] : k \in 0..n}

\* target directories: absent, or holding any of the given files
TargetDirs(onnx, companions, extras) ==
    {NoDir} \cup
    {[dir |-> TRUE, files |-> fl, extra |-> x] :
        fl \in {g \in [Assets -> onnx \cup companions \cup {Absent}] :
                  /\ g[ONNX] \in onnx \cup {Absent}
                  /\ g[TOKENIZER] \in companions \cup {Absent}
                  /\ g[CONFIG] \in companions \cup {Absent}},
        x \in extras}

OnnxSizes ==
    {1, 50000000, 99999998, 100000000, 100000001,
     1999999999, 2000000000, 2000000001}

OldFiles(sizes) == {File(n, "old") : n \in sizes}

Refused == [fail |-> "request", chunks |-> <<>>]
Served(chunks) == [fail |-> "none", chunks |-> chunks]
Broken(chunks) == [fail |-> "stream", chunks |-> chunks]

OnnxResponses ==
    {Refused, Served(<<1999999998>>), Served(<<1999999998, 0, 1>>),
     Broken(<<>>), Broken(<<100000000>>)}

CompanionResponses == {Refused, Served(<<1, 1>>), Broken(<<1>>)}

DeadEndpoint == [f \in Assets |-> Refused]

QuietSources == [executor |-> "marked", build |-> "marked"]

AbsentRoot ==
    [exists |-> FALSE, blobsDir |-> FALSE,
     manifest |-> [kind |-> "nodir", layers |-> <<>>], blobs |-> {}]

Layers ==
    {[media |-> MediaModel, digest |-> <<"sha256", "aaa">>],
     [media |-> MediaModelExt, digest |-> <<"sha256", "bbb">>],
     [media |-> MediaModel, digest |-> <<"aaa">>],
     [media |-> MediaLicense, digest |-> <<"sha256", "aaa">>]}

Manifests ==
    {[kind |-> k, layers |-> <<>>] : k \in {"nodir", "notag", "malformed"}}
    \cup {[kind |-> "json", layers |-> ls] : ls \in SeqsUpTo(Layers, MaxLayers)}

\* a store root that exists
Roots ==
    {[exists |-> TRUE, blobsDir |-> FALSE,
      manifest |-> [kind |-> "nodir", layers |-> <<>>], blobs |-> {}]}
    \cup {[exists |-> TRUE, blobsDir |-> TRUE, manifest |-> m, blobs |-> b] :
            m \in Manifests, b \in SUBSET Hexes}

\* a store root holding a complete copy of the model
CompleteRoot ==
    [exists |-> TRUE, blobsDir |-> TRUE,
     manifest |-> [kind |-> "json",
                   layers |-> <<[media |-> MediaModel,
                                 digest |-> <<"sha256", "aaa">>]>>],
     blobs |-> {"aaa"}]

NoStore == [i \in possible_paths |-> AbsentRoot]

\* the candidates: none exists, or the first that exists is any root and the
\* ones after it are all absent or all complete copies
Stores ==
    {NoStore} \cup
    {[i \in possible_paths |->
         IF i < k THEN AbsentRoot ELSE IF i = k THEN r ELSE later] :
        k \in possible_paths, r \in Roots, later \in {AbsentRoot, CompleteRoot}}

NoRun == [exit |-> 0]

\* the Verifier's inputs vary
InitVerify ==
    /\ fs \in TargetDirs(OldFiles(OnnxSizes), OldFiles({1, 2}), {0})
    /\ sources \in [executor : {"absent", "unreadable", "marked"},
                    build : {"absent", "unreadable", "plain"}]
    /\ endpoint = DeadEndpoint
    /\ store = NoStore
    /\ copyIO = "ok"

\* the Fetcher's inputs vary
InitFetch ==
    /\ fs \in TargetDirs(OldFiles({7}), OldFiles({3}), {0, 5})
    /\ sources = QuietSources
    /\ endpoint \in {e \in [Assets -> OnnxResponses \cup CompanionResponses] :
                       /\ e[ONNX] \in OnnxResponses
                       /\ e[TOKENIZER] \in CompanionResponses
                       /\ e[CONFIG] \in CompanionResponses}
    /\ store = NoStore
    /\ copyIO = "ok"

\* the Extractor's inputs vary
InitExtract ==
    /\ fs \in {NoDir,
               [dir |-> TRUE,
                files |-> [f \in Assets |->
                             IF f = ONNX THEN File(7, "old") ELSE Absent],
                extra |-> 0]}
    /\ sources = QuietSources
    /\ endpoint = DeadEndpoint
    /\ store \in Stores
    /\ copyIO \in {"ok", "failOpen", "failMid"}

Init ==
    /\ \/ InitVerify
       \/ InitFetch
       \/ InitExtract
    /\ proc = "none"
    /\ pre = fs
    /\ out = NoRun
    /\ runs = 0

Next ==
    \/ FetcherRun
    \/ ExtractorRun
    \/ VerifierRun

Spec == Init /\ [][Next]_vars

----------------------------------------------------------------------------
(* Claims about the Verifier *)

\* size of an asset before the last run, 0 when it does not exist
SizeBefore(f) == IF Exists(pre, f) THEN pre.files[f].size ELSE 0

TotalBefore == SizeBefore(ONNX) + SizeBefore(TOKENIZER) + SizeBefore(CONFIG)

NoneBefore == \A f \in Assets : ~Exists(pre, f)

AllBefore == \A f \in Assets : Exists(pre, f)

\* C1: an existing model-weights file of s bytes is classified FullModel when
\* s >= 2,000,000,000, PartialOrPlaceholder when 100,000,000 <= s <
\* 2,000,000,000 and TooSmall when s < 100,000,000.
C1_InclusiveThresholds ==
    (proc = "verify" /\ Exists(pre, ONNX)) =>
        out.status[ONNX] =
            (IF SizeBefore(ONNX) >= 2000000000 THEN "FullModel"
             ELSE IF SizeBefore(ONNX) >= 100000000 THEN "PartialOrPlaceholder"
             ELSE "TooSmall")

\* C2: whenever check_model_integration returns, the value returned is true
\* exactly when all three asset files exist and their sizes sum to strictly
\* more than 100,000,000 bytes; companions that exist are reported Present
\* whatever their size.
C2_AggregateResult ==
    (proc = "verify" /\ ~out.raised) =>
        /\ out.ret <=> (AllBefore /\ TotalBefore > 100000000)
        /\ \A f \in {TOKENIZER, CONFIG} :
              Exists(pre, f) => out.status[f] = "Present"

\* all three files exist, the companions are reported Present, the total is
\* exactly 100,000,000 bytes and the Verifier returned false
C2_Witness ==
    /\ proc = "verify"
    /\ ~out.raised
    /\ AllBefore
    /\ TotalBefore = 100000000
    /\ out.status[TOKENIZER] = "Present"
    /\ out.status[CONFIG] = "Present"
    /\ ~out.ret

----------------------------------------------------------------------------
(* Claims about the Fetcher *)

\* bytes the endpoint delivers for f before the body ends or breaks
BodyBytes(f) == SumChunks(endpoint[f].chunks, Len(endpoint[f].chunks))

Failed(f) == endpoint[f].fail # "none"

\* every file of the table was attempted, in order
AllAttempted ==
    /\ Len(out.log) = Len(model_files)
    /\ \A i \in 1..Len(model_files) : out.log[i].name = model_files[i]

\* a file whose transfer succeeds is written with its full byte count
SucceededWritten ==
    \A i \in 1..Len(model_files) :
        LET f == model_files[i]
        IN  ~Failed(f) =>
               /\ out.log[i].ok
               /\ out.log[i].downloaded = BodyBytes(f)
               /\ Exists(fs, f)
               /\ fs.files[f].size = BodyBytes(f)
               /\ fs.files[f].data \in {"remote", "none"}
               /\ out.scan[f] = BodyBytes(f)

\* C4 as stated: whatever subset of the downloads fails, the run does not
\* raise, every other file is attempted and written in full when its transfer
\* succeeds, and each failed file is absent in the post-run scan.
C4_FailedFilesAbsent ==
    proc = "fetch" =>
        /\ ~out.raised
        /\ AllAttempted
        /\ SucceededWritten
        /\ \A f \in Assets : Failed(f) => out.scan[f] = -1

\* C4 amended: whatever subset of the downloads fails, no download failure
\* leaves download_phi35_mini, every file is attempted, and a file whose
\* transfer succeeds is written with its full byte count. A file whose
\* download fails before the destination is opened is left as it was (absent
\* only if it was absent before the run); a file whose transfer breaks after
\* the destination was opened is present in the post-run scan, holding just
\* the bytes received before the failure.
C4_FailuresIndependent ==
    proc = "fetch" =>
        /\ ~out.raised
        /\ AllAttempted
        /\ SucceededWritten
        /\ \A i \in 1..Len(model_files) :
              LET f == model_files[i]
              IN  /\ Failed(f) => ~out.log[i].ok
                  /\ endpoint[f].fail = "request" =>
                        /\ fs.files[f] = pre.files[f]
                        /\ out.scan[f] = (IF Exists(pre, f)
                                          THEN pre.files[f].size ELSE -1)
                  /\ endpoint[f].fail = "stream" =>
                        /\ Exists(fs, f)
                        /\ fs.files[f].size = BodyBytes(f)
                        /\ out.scan[f] = BodyBytes(f)

\* the tokenizer download fails, the two others succeed and are written in
\* full, in a directory that did not exist before
C4_Witness ==
    /\ proc = "fetch"
    /\ ~pre.dir
    /\ ~Failed(ONNX) /\ Failed(TOKENIZER) /\ ~Failed(CONFIG)
    /\ out.scan[ONNX] = BodyBytes(ONNX) /\ BodyBytes(ONNX) > 0
    /\ out.scan[CONFIG] = BodyBytes(CONFIG)
    /\ out.scan[TOKENIZER] = -1
    /\ ~out.raised

\* sum of the sizes the post-run scan reports for the three files of the table
ScanTotal ==
    LET sz(f) == IF out.scan[f] = -1 THEN 0 ELSE out.scan[f]
    IN  sz(ONNX) + sz(TOKENIZER) + sz(CONFIG)

\* C9 as stated: the batch is judged complete exactly when the sizes of the
\* three files of the table sum to more than 2,000,000,000 bytes, whatever
\* else the target directory holds.
C9_ThreeFilesDecide ==
    proc = "fetch" => (out.complete <=> ScanTotal > 2000000000)

\* C9 amended: the batch is judged complete exactly when the sizes of all
\* regular files found in the target directory, the three files of the table
\* and any other file there, sum to more than 2,000,000,000 bytes.
C9_DirectoryTotalDecides ==
    proc = "fetch" =>
        /\ out.total = ScanTotal + fs.extra
        /\ out.complete <=> (ScanTotal + fs.extra > 2000000000)

\* judged complete although the three files of the table alone stay at or
\* below the threshold
C9_Witness ==
    /\ proc = "fetch"
    /\ out.complete
    /\ ScanTotal <= 2000000000
    /\ fs.extra > 0

----------------------------------------------------------------------------
(* Claims about the Extractor *)

\* the store root the last Extractor run searched
Searched == store[out.root]

SearchedLayers == Searched.manifest.layers

\* layer i carries the model-weights marker in its media type
Matches(i) == Contains(SearchedLayers[i].media, MARKER)

\* layer i names a blob file, sha256-<hex>, and that file exists
BlobPresent(i) ==
    /\ Len(SearchedLayers[i].digest) >= 2
    /\ SearchedLayers[i].digest[2] \in Searched.blobs

\* layer i has a digest without the algorithm prefix
BadDigest(i) == Len(SearchedLayers[i].digest) < 2

\* the manifest of the searched root was read and parsed
ManifestRead ==
    /\ out.root # 0
    /\ Searched.blobsDir
    /\ Searched.manifest.kind = "json"

\* C5 as stated: the layer selected is the first layer, in manifest order,
\* whose media type contains the marker; a layer without the marker is never
\* selected; with no matching layer or a malformed manifest the result is
\* None.
C5_FirstMatchingLayer ==
    proc = "extract" /\ out.root # 0 /\ Searched.blobsDir =>
        /\ Searched.manifest.kind = "malformed" => ~out.blob.found
        /\ Searched.manifest.kind = "json" =>
              LET M == {i \in 1..Len(SearchedLayers) : Matches(i)}
              IN  /\ M = {} => ~out.blob.found
                  /\ out.blob.found =>
                        /\ M # {}
                        /\ LET first == CHOOSE i \in M : \A j \in M : i <= j
                           IN  /\ BlobPresent(first)
                               /\ out.blob.hex = SearchedLayers[first].digest[2]

\* C5 amended: the blob selected is that of the first layer, in manifest
\* order, whose media type contains the marker and whose blob file exists,
\* provided no matching layer before it has a digest without the algorithm
\* prefix; a layer without the marker is never selected; in every other case
\* (no such layer, a matching layer with a prefix-less digest met first, a
\* manifest that is not valid JSON) the result is None.
C5_FirstMatchingLayerWithBlob ==
    proc = "extract" /\ out.root # 0 /\ Searched.blobsDir =>
        /\ Searched.manifest.kind = "malformed" => ~out.blob.found
        /\ Searched.manifest.kind = "json" =>
              LET H == {i \in 1..Len(SearchedLayers) :
                          /\ Matches(i)
                          /\ BlobPresent(i)
                          /\ \A j \in 1..(i - 1) :
                                Matches(j) => ~BadDigest(j) /\ ~BlobPresent(j)}
              IN  /\ H = {} => ~out.blob.found
                  /\ H # {} =>
                        /\ out.blob.found
                        /\ \E i \in H : out.blob.hex = SearchedLayers[i].digest[2]

\* the first matching layer's blob file is missing and the blob of a later
\* matching layer was selected
C5_Witness ==
    /\ proc = "extract"
    /\ ManifestRead
    /\ Len(SearchedLayers) >= 2
    /\ Matches(1) /\ ~BadDigest(1) /\ ~BlobPresent(1)
    /\ Matches(2) /\ BlobPresent(2)
    /\ out.blob.found
    /\ out.blob.hex = SearchedLayers[2].digest[2]

\* no candidate store root exists
NoRootExists == \A i \in possible_paths : ~store[i].exists

\* the first candidate that exists
FirstRoot ==
    store[CHOOSE i \in possible_paths :
              store[i].exists /\ \A j \in 1..(i - 1) : ~store[j].exists]

\* the first existing root has no blobs directory, no manifest, a manifest
\* that is not JSON, or no layer with the marker
LookupFails ==
    \/ NoRootExists
    \/ ~FirstRoot.blobsDir
    \/ FirstRoot.manifest.kind # "json"
    \/ \A i \in 1..Len(FirstRoot.manifest.layers) :
          ~Contains(FirstRoot.manifest.layers[i].media, MARKER)

\* the blob file of the first layer with the marker is absent
FirstMatchBlobAbsent ==
    /\ ~LookupFails
    /\ LET ls == FirstRoot.manifest.layers
           first == CHOOSE i \in 1..Len(ls) :
                        /\ Contains(ls[i].media, MARKER)
                        /\ \A j \in 1..(i - 1) : ~Contains(ls[j].media, MARKER)
       IN  Len(ls[first].digest) < 2 \/ ls[first].digest[2] \notin FirstRoot.blobs

\* the blob file of every layer with the marker is absent
EveryMatchBlobAbsent ==
    /\ ~LookupFails
    /\ LET ls == FirstRoot.manifest.layers
       IN  \A i \in 1..Len(ls) :
              Contains(ls[i].media, MARKER) =>
                 Len(ls[i].digest) < 2 \/ ls[i].digest[2] \notin FirstRoot.blobs

\* C6 as stated: with no store root, no blobs directory, no manifest, a
\* malformed manifest, no matching layer, or the blob file of the selected
\* (first matching) layer absent, main fails and has no side effect on the
\* target directory.
C6_NoSideEffects ==
    (proc = "extract" /\ (LookupFails \/ FirstMatchBlobAbsent)) =>
        /\ ~out.ret
        /\ out.exit = 1
        /\ fs = pre

\* C6 amended: with no store root, no blobs directory, no manifest, a
\* malformed manifest, no matching layer, or the blob file of every matching
\* layer absent, main fails and has no side effect on the target directory.
C6_NoSideEffectsNoBlob ==
    (proc = "extract" /\ (LookupFails \/ EveryMatchBlobAbsent)) =>
        /\ ~out.ret
        /\ out.exit = 1
        /\ fs = pre

\* a manifest with a matching layer but no blob file for it: the run failed
\* and the target directory still does not exist
C6_Witness ==
    /\ proc = "extract"
    /\ EveryMatchBlobAbsent
    /\ ~pre.dir
    /\ ~fs.dir
    /\ ~out.ret

\* the first existing root holds nothing that main can extract
FirstRootUnusable == LookupFails \/ EveryMatchBlobAbsent

\* C10: the store search returns the first candidate, in the fixed order, that
\* exists, and None only when no candidate exists; nothing of a later
\* candidate is used: when the first existing root lacks the blobs directory,
\* the manifest or the blob, the Extractor fails and writes nothing, also when
\* a later candidate holds a complete copy.
C10_FirstExistingRootOnly ==
    proc = "extract" =>
        /\ out.root = 0 <=> NoRootExists
        /\ out.root # 0 =>
              /\ Searched.exists
              /\ \A j \in 1..(out.root - 1) : ~store[j].exists
              /\ out.blob.found => out.blob.hex \in Searched.blobs
        /\ FirstRootUnusable => ~out.ret /\ ~out.blob.found /\ fs = pre

\* the first existing root is unusable, a later root holds a complete copy,
\* and the run failed
C10_Witness ==
    /\ proc = "extract"
    /\ out.root # 0
    /\ out.root < NumCandidates
    /\ FirstRootUnusable
    /\ store[out.root + 1] = CompleteRoot
    /\ ~out.ret
    /\ fs = pre

----------------------------------------------------------------------------
(* Claims about the three scripts together *)

\* C7: the exit status of each script signals the outcome of its batch: the
\* Fetcher exits non-zero when a download failed or the batch does not look
\* complete, the Extractor exactly when extraction failed, the Verifier when
\* its aggregate result is false; each exits zero on success.
C7_ExitStatusSignalsOutcome ==
    /\ proc = "fetch" =>
          (out.exit # 0 <=>
              ((\E i \in 1..Len(out.log) : ~out.log[i].ok) \/ ~out.complete))
    /\ proc = "extract" => (out.exit # 0 <=> ~out.ret)
    /\ proc = "verify" => (out.exit # 0 <=> (out.raised \/ ~out.ret))

\* C8: with the endpoint and the store unchanged, a second run of the Fetcher
\* right after a Fetcher run, or of the Extractor right after an Extractor
\* run, leaves the target directory exactly as the first run left it, and a
\* Verifier run changes nothing on the filesystem.
C8_Idempotent ==
    [][/\ (proc = "fetch" /\ proc' = "fetch") => fs' = fs
       /\ (proc = "extract" /\ proc' = "extract") => fs' = fs
       /\ (runs' = runs + 1 /\ proc' = "verify") =>
             /\ fs' = fs
             /\ store' = store
             /\ sources' = sources]_vars

\* a second Fetcher run finished on a directory whose model file, present
\* with other content before the first run, was overwritten by that run
C8_Witness ==
    /\ runs = 2
    /\ proc = "fetch"
    /\ pre = fs
    /\ ~Failed(ONNX)
    /\ fs.files[ONNX].data = "remote"
    /\ fs.files[TOKENIZER].data = "old"
    /\ out.log[1].ok

====
